---------------------------- MODULE Spec2Model ----------------------------
(***************************************************************************)
(* Model of the "Tabela Price" calculators of this repository              *)
(* (src/desconto-racional/main.js and the two older copies under           *)
(* src/unnamed).                                                           *)
(*                                                                         *)
(* JavaScript numbers are IEEE 754 doubles.  They are modelled here as a   *)
(* decimal floating point format with the same special values (NaN,        *)
(* +Infinity, -Infinity, +0, -0), a mantissa of 16 significant decimal     *)
(* digits (a double carries 15.95) and the decimal exponent range of a     *)
(* double (overflow to Infinity above 1e308, underflow to zero below       *)
(* 1e-324).  Every operation is computed exactly and rounded once to 16    *)
(* digits, as IEEE 754 rounds once to 53 bits.  The mantissa is kept as    *)
(* four limbs in base 10000 so that no intermediate exceeds 32 bits.       *)
(***************************************************************************)
EXTENDS Integers, Sequences, FiniteSets, TLC

(***************************************************************************)
(* Limb arithmetic.  A mantissa is <<m1, m2, m3, m4>> in base 10000, most  *)
(* significant limb first, with m1 >= 1000 (16 significant digits).        *)
(***************************************************************************)
Base == 10000

MantDigits == 16

MaxExp10 == 308

MinExp10 == -324

\* TLC passes operator arguments unevaluated; Eval(x) evaluates x, so that a
\* loop's accumulators are values at every iteration rather than nested terms
Eval(x) == x = x

Pow10(k) == CASE k = 0 -> 1 [] k = 1 -> 10 [] k = 2 -> 100 [] k = 3 -> 1000
              [] k = 4 -> 10000 [] k = 5 -> 100000 [] k = 6 -> 1000000
              [] OTHER -> 10000000

LimbDigits(x) == IF x >= 1000 THEN 4 ELSE IF x >= 100 THEN 3 ELSE IF x >= 10 THEN 2 ELSE 1

\* limb j of w, 0 past its end
Limb(w, j) == IF j <= Len(w) THEN w[j] ELSE 0

\* the natural number n (0 <= n < 2^31) as limbs
NFromInt(n) == <<n \div (Base * Base), (n \div Base) % Base, n % Base>>

RECURSIVE NCarryGo(_, _, _)
\* the limbs of the columns w[1..i] (each below 2^31 - Base) plus carry
NCarryGo(w, i, carry) ==
    IF i = 1 THEN <<w[1] + carry>>
    ELSE Append(NCarryGo(w, i - 1, (w[i] + carry) \div Base), (w[i] + carry) % Base)

\* the columns w brought into base 10000: w[1] takes the last carry
NCarry(w) == NCarryGo(w, Len(w), 0)

\* the exact product of two mantissas: eight limbs
NMul(a, b) ==
    NCarry(<<0,
             a[1] * b[1],
             a[1] * b[2] + a[2] * b[1],
             a[1] * b[3] + a[2] * b[2] + a[3] * b[1],
             a[1] * b[4] + a[2] * b[3] + a[3] * b[2] + a[4] * b[1],
             a[2] * b[4] + a[3] * b[3] + a[4] * b[2],
             a[3] * b[4] + a[4] * b[3],
             a[4] * b[4]>>)

\* b * d for a mantissa b and a limb d: five limbs
NMulSmall(b, d) == NCarry(<<0, b[1] * d, b[2] * d, b[3] * d, b[4] * d>>)

RECURSIVE NAddGo(_, _, _, _)
NAddGo(a, b, i, carry) ==
    IF i = 0 THEN <<carry>>
    ELSE Append(NAddGo(a, b, i - 1, (a[i] + b[i] + carry) \div Base),
                (a[i] + b[i] + carry) % Base)

\* a + b for a and b of the same length n: n + 1 limbs
NAdd(a, b) == NAddGo(a, b, Len(a), 0)

RECURSIVE NSubGo(_, _, _, _)
NSubGo(a, b, i, borrow) ==
    IF i = 0 THEN <<borrow>>
    ELSE IF a[i] - b[i] - borrow < 0
         THEN Append(NSubGo(a, b, i - 1, 1), a[i] - b[i] - borrow + Base)
         ELSE Append(NSubGo(a, b, i - 1, 0), a[i] - b[i] - borrow)

\* a - b modulo Base^n for a and b of the same length n, after a first element
\* that is 1 when a < b and 0 otherwise
NSub(a, b) == NSubGo(a, b, Len(a), 0)

\* the result of a division step once the candidates are known: t0, t1, t2
\* are r - q * b for q = q0, q0 - 1, q0 - 2, each after its borrow flag
NDivPick(q0, t0, t1, t2) ==
    IF t0[1] = 0 THEN <<q0>> \o Tail(t0)
    ELSE IF t1[1] = 0 THEN <<q0 - 1>> \o Tail(t1)
    ELSE <<q0 - 2>> \o Tail(t2)

\* a division step with the estimate q0 of the quotient limb
NDivTry(r, b, q0) ==
    NDivPick(q0, NSub(r, NMulSmall(b, q0)), NSub(r, NMulSmall(b, q0 - 1)),
             NSub(r, NMulSmall(b, q0 - 2)))

\* one step of long division in base 10000: for five limbs r and a divisor b
\* with b[1] >= 5000 and r < Base * b, the limb q = floor(r / b) followed by
\* the five limbs of r - q * b.  The quotient of the leading limbs is q, q + 1
\* or q + 2 (Knuth, The Art of Computer Programming, 4.3.1, Theorem B).
NDivStep(r, b) ==
    NDivTry(r, b, IF (r[1] * Base + r[2]) \div b[1] > Base - 1 THEN Base - 1
                  ELSE (r[1] * Base + r[2]) \div b[1])

RECURSIVE NLongDivGo(_, _, _)
\* the quotient limb of the step qr, then the remaining steps
NLongDivNext(qr, b, steps) ==
    <<qr[1]>> \o NLongDivGo(<<qr[3], qr[4], qr[5], qr[6], 0>>, b, steps - 1)

\* the next steps limbs of r / b
NLongDivGo(r, b, steps) ==
    IF steps = 0 THEN <<>> ELSE NLongDivNext(NDivStep(r, b), b, steps)

\* a / b scaled by k, so that the divisor's leading limb is at least 5000
NLongDivScaled(a, b, k) == NLongDivGo(NMulSmall(a, k), Tail(NMulSmall(b, k)), 6)

\* floor(a * Base^5 / b) for mantissas a and b: six limbs
NLongDiv(a, b) == NLongDivScaled(a, b, Base \div (b[1] + 1))

(***************************************************************************)
(* JavaScript values: a number is a record [k, s, m, e] with k one of      *)
(* "fin" (s * m * 10^(e - 15), m a 16-digit mantissa), "zero" (s is the    *)
(* sign of the zero), "inf" (s the sign) and "nan"; k = "null" is the      *)
(* value null.                                                             *)
(***************************************************************************)
NaN == [k |-> "nan", s |-> 1, m |-> <<0>>, e |-> 0]

Null == [k |-> "null", s |-> 1, m |-> <<0>>, e |-> 0]

Infinity(sg) == [k |-> "inf", s |-> sg, m |-> <<0>>, e |-> 0]

Zero(sg) == [k |-> "zero", s |-> sg, m |-> <<0>>, e |-> 0]

One == [k |-> "fin", s |-> 1, m |-> <<1000, 0, 0, 0>>, e |-> 0]

RECURSIVE FirstLimb(_, _)
\* the index of the first nonzero limb of w from j on, 0 if there is none
FirstLimb(w, j) == IF j > Len(w) THEN 0 ELSE IF w[j] # 0 THEN j ELSE FirstLimb(w, j + 1)

\* the number of sign sg, mantissa mm and exponent ee: Infinity past the
\* largest double, 0 below the smallest
NormPack(sg, mm, ee) ==
    IF ee > MaxExp10 THEN Infinity(sg)
    ELSE IF ee < MinExp10 THEN Zero(sg)
    ELSE [k |-> "fin", s |-> sg, m |-> mm, e |-> ee]

\* rounding up: inc is the mantissa plus one after its carry, and a carry
\* out of the mantissa makes it 1000 0000 0000 0000 one exponent higher
NormInc(sg, inc, ee) ==
    IF inc[1] = 1 THEN NormPack(sg, <<1000, 0, 0, 0>>, ee + 1)
    ELSE NormPack(sg, Tail(inc), ee)

\* the mantissa m0 rounded up or kept
NormUp(sg, m0, rup, ee) ==
    IF rup THEN NormInc(sg, NAddGo(m0, <<0, 0, 0, 1>>, 4, 0), ee) ELSE NormPack(sg, m0, ee)

\* the 16 digits of w that start at limb f, which has ld digits (lo = 10^ld,
\* hi = 10^(4 - ld)), and the half-away-from-zero decision on the 17th
NormShift(sg, w, f, lo, hi, ee) ==
    NormUp(sg,
           <<w[f] * hi + Limb(w, f + 1) \div lo,
             (Limb(w, f + 1) % lo) * hi + Limb(w, f + 2) \div lo,
             (Limb(w, f + 2) % lo) * hi + Limb(w, f + 3) \div lo,
             (Limb(w, f + 3) % lo) * hi + Limb(w, f + 4) \div lo>>,
           2 * (Limb(w, f + 4) % lo) >= lo,
           ee)

NormDigits(sg, w, e10, f, ld) ==
    NormShift(sg, w, f, Pow10(ld), Pow10(4 - ld), e10 + 4 * (Len(w) - f) + ld - 1)

NormAt(sg, w, e10, f) ==
    IF f = 0 THEN Zero(sg) ELSE NormDigits(sg, w, e10, f, LimbDigits(w[f]))

\* sg * w * 10^e10 rounded to MantDigits digits (half away from zero)
NormRound(sg, w, e10) == NormAt(sg, w, e10, FirstLimb(w, 1))

\* the integer n as a number
FromInt(n) == NormRound(IF n < 0 THEN -1 ELSE 1, NFromInt(IF n < 0 THEN -n ELSE n), 0)

\* the decimal literal n / 10^k
Dec(n, k) == NormRound(IF n < 0 THEN -1 ELSE 1, NFromInt(IF n < 0 THEN -n ELSE n), -k)

IsNaN(x) == x.k = "nan"

IsNumber(x) == x.k \in {"fin", "zero", "inf", "nan"}

IsFinite(x) == x.k \in {"fin", "zero"}

Neg(x) == IF x.k = "nan" THEN x ELSE [x EXCEPT !.s = -x.s]

\* Math.abs
Abs(x) == IF x.k = "nan" THEN x ELSE [x EXCEPT !.s = 1]

\* x * y
Mul(x, y) ==
    IF x.k = "nan" \/ y.k = "nan" THEN NaN
    ELSE IF (x.k = "inf" /\ y.k = "zero") \/ (x.k = "zero" /\ y.k = "inf") THEN NaN
    ELSE IF x.k = "inf" \/ y.k = "inf" THEN Infinity(x.s * y.s)
    ELSE IF x.k = "zero" \/ y.k = "zero" THEN Zero(x.s * y.s)
    ELSE NormRound(x.s * y.s, NMul(x.m, y.m), x.e + y.e - 2 * (MantDigits - 1))

\* x / y
Div(x, y) ==
    IF x.k = "nan" \/ y.k = "nan" THEN NaN
    ELSE IF (x.k = "inf" /\ y.k = "inf") \/ (x.k = "zero" /\ y.k = "zero") THEN NaN
    ELSE IF x.k = "inf" \/ y.k = "zero" THEN Infinity(x.s * y.s)
    ELSE IF x.k = "zero" \/ y.k = "inf" THEN Zero(x.s * y.s)
    ELSE NormRound(x.s * y.s, NLongDiv(x.m, y.m), x.e - y.e - 20)

\* x + y for operands of opposite signs laid out as nx and ny: df is nx - ny
\* after its borrow flag
AddDiff(x, y, nx, ny, n, df, e0) ==
    IF FirstLimb(df, 1) = 0 THEN Zero(1)
    ELSE NormRound(IF df[1] = 1 THEN y.s ELSE x.s,
                   IF df[1] = 1 THEN Tail(NSubGo(ny, nx, n, 0)) ELSE Tail(df), e0)

\* x + y for operands laid out on the same n limbs nx and ny
AddLimbs(x, y, nx, ny, n, e0) ==
    IF x.s = y.s THEN NormRound(x.s, NAddGo(nx, ny, n, 0), e0)
    ELSE AddDiff(x, y, nx, ny, n, NSubGo(nx, ny, n, 0), e0)

\* xs is x.m shifted left by the difference of the exponents modulo 4
AddLaid(x, y, q, xs) ==
    AddLimbs(x, y,
             [j \in 1..(5 + q) |-> IF j <= 5 THEN xs[j] ELSE 0],
             [j \in 1..(5 + q) |-> IF j <= q + 1 THEN 0 ELSE y.m[j - q - 1]],
             5 + q, y.e - (MantDigits - 1))

AddShift(x, y, q, hi, lo) ==
    AddLaid(x, y, q,
            <<x.m[1] \div lo, (x.m[1] % lo) * hi + x.m[2] \div lo,
              (x.m[2] % lo) * hi + x.m[3] \div lo,
              (x.m[3] % lo) * hi + x.m[4] \div lo, (x.m[4] % lo) * hi>>)

\* x + y for finite nonzero x, y with x.e >= y.e: x.m is shifted left by the
\* difference of the exponents and both are laid out on 5 + q limbs
AddAligned(x, y) ==
    IF x.e - y.e > MantDigits + 1 THEN x
    ELSE AddShift(x, y, (x.e - y.e) \div 4, Pow10((x.e - y.e) % 4),
                  Pow10(4 - ((x.e - y.e) % 4)))

\* x + y
Add(x, y) ==
    IF x.k = "nan" \/ y.k = "nan" THEN NaN
    ELSE IF x.k = "inf" /\ y.k = "inf" THEN (IF x.s = y.s THEN x ELSE NaN)
    ELSE IF x.k = "inf" THEN x
    ELSE IF y.k = "inf" THEN y
    ELSE IF x.k = "zero" /\ y.k = "zero" THEN (IF x.s = -1 /\ y.s = -1 THEN Zero(-1) ELSE Zero(1))
    ELSE IF x.k = "zero" THEN y
    ELSE IF y.k = "zero" THEN x
    ELSE AddAligned(IF x.e >= y.e THEN x ELSE y, IF x.e >= y.e THEN y ELSE x)

\* x - y
Sub(x, y) == Add(x, Neg(y))

\* whether a difference is above zero
Positive(d) == d.k \in {"fin", "inf"} /\ d.s = 1

\* x > y (false when either is NaN)
Gt(x, y) == Positive(Sub(x, y))

\* x <= y (false when either is NaN)
Le(x, y) == x.k # "nan" /\ y.k # "nan" /\ ~Positive(Sub(x, y))

\* the value of a number that is an integer of magnitude below 10^8
IntOf(x) == IF x.k = "zero" THEN 0
            ELSE x.s * ((x.m[1] * Base + x.m[2]) \div Pow10(7 - x.e))

\* whether a number is an integer of magnitude below 10^8
IsSmallInt(x) ==
    \/ x.k = "zero"
    \/ /\ x.k = "fin"
       /\ x.e >= 0
       /\ x.e < 8
       /\ (x.m[1] * Base + x.m[2]) % Pow10(7 - x.e) = 0
       /\ x.m[3] = 0
       /\ x.m[4] = 0

RECURSIVE PowNat(_, _)
\* the square sq of b^(n \div 2), times b for an odd n
PowOdd(b, n, sq) == IF n % 2 = 0 THEN sq ELSE Mul(sq, b)

PowStep(b, n, h) == PowOdd(b, n, Mul(h, h))

\* b^n for a natural n >= 1, by squaring
PowNat(b, n) == IF n = 1 THEN b ELSE PowStep(b, n, PowNat(b, n \div 2))

\* b^n from r = b^|n|
MathPowSign(n, r) == IF n > 0 THEN r ELSE Div(One, r)

MathPowInt(b, n) == MathPowSign(n, PowNat(b, IF n > 0 THEN n ELSE -n))

\* Math.pow(b, x) for an exponent x that is NaN or an integer
MathPow(b, x) ==
    IF x.k = "nan" THEN NaN
    ELSE IF x.k = "zero" THEN One
    ELSE IF b.k = "nan" THEN NaN
    ELSE MathPowInt(b, IntOf(x))

\* x with the digits after position q, lo cleared, plus one unit there when
\* the cleared part is at least half a unit
ToFixedAt(x, q, lo) ==
    NormRound(x.s,
              NAddGo([j \in 1..4 |-> IF j <= q THEN x.m[j]
                                     ELSE IF j = q + 1 THEN (x.m[j] \div lo) * lo ELSE 0],
                     [j \in 1..4 |-> IF j = q + 1 /\ 2 * (x.m[j] % lo) >= lo THEN lo ELSE 0],
                     4, 0),
              x.e - (MantDigits - 1))

\* Number.prototype.toFixed(d) as a number: x rounded to d decimals
\* (NaN and the infinities print as themselves)
ToFixed(x, d) ==
    IF x.k # "fin" \/ x.e + d + 1 >= MantDigits THEN x
    ELSE IF x.e + d + 1 < 0 THEN Zero(x.s)
    ELSE ToFixedAt(x, (x.e + d + 1) \div 4, Pow10(4 - ((x.e + d + 1) % 4)))

\* x.toFixed(d) throws a TypeError when x is null
ToFixedThrows(x) == x.k = "null"

(***************************************************************************)
(* A form field holds the text the user typed: nothing, or a decimal       *)
(* integer literal.                                                        *)
(***************************************************************************)
Vazio == [txt |-> "empty", n |-> 0]

Texto(n) == [txt |-> "int", n |-> n]

\* parseInt(text) and parseFloat(text), which agree on these texts
ParseInt(f) == IF f.txt = "empty" THEN NaN ELSE FromInt(f.n)

ParseFloat(f) == IF f.txt = "empty" THEN NaN ELSE FromInt(f.n)

\* the implicit ToNumber of a string operand: "" is 0
ToNumber(f) == IF f.txt = "empty" THEN Zero(1) ELSE FromInt(f.n)

\* the string p + 1, that is the text of p followed by "1", as a number
Concat1(f) ==
    IF f.txt = "empty" THEN One
    ELSE IF f.n < 0 THEN FromInt(10 * f.n - 1)
    ELSE FromInt(10 * f.n + 1)

(***************************************************************************)
(* The financial functions.                                                *)
(***************************************************************************)
\* Calcular_PrestacaoMensal with the exponent p in place of -p
Calcular_PrestacaoMensal_ExpoentePositivo(valorFinanciado, t, p) ==
    Div(Mul(valorFinanciado, t), Sub(One, MathPow(Add(One, t), p)))

Calcular_PrestacaoMensal(valorFinanciado, t, p) ==
    Div(Mul(valorFinanciado, t), Sub(One, MathPow(Add(One, t), Neg(p))))

\* Calcular_CoeficienteFinanciamento without the - 1 of the divisor
Calcular_CoeficienteFinanciamento_SemMenosUm(t, p) ==
    Div(Mul(t, MathPow(Add(One, t), p)), MathPow(Add(One, t), p))

\* Calcular_ValorPago without the product by p
Calcular_ValorPago_SemPeriodos(valorFinanciado, t, p) ==
    Calcular_PrestacaoMensal(valorFinanciado, t, p)

Calcular_CoeficienteFinanciamento(t, p) ==
    Div(Mul(t, MathPow(Add(One, t), p)), Sub(MathPow(Add(One, t), p), One))

Calcular_ValorPago(valorFinanciado, t, p) ==
    Mul(Calcular_PrestacaoMensal(valorFinanciado, t, p), p)

Calcular_ValorCorrigido(valorPago, t, p) == Div(valorPago, MathPow(Add(One, t), p))

\* t_anual of the click handler
TaxaAnual(t) == Sub(Add(One, Sub(MathPow(Add(One, t), FromInt(12)), One)), One)

\* const precisao = 0.000001
precisao == Dec(1, 6)

\* var estimativa = 0.1
EstimativaInicial == Dec(1, 1)

\* the iteration limit of if (iteracoes > 1000)
MaxIteracoes == 1000

\* erro = valorFinanciado - (valorPago / Math.pow(1 + estimativa, p))
NewtonErro(valorFinanciado, p, valorPago, est) ==
    Sub(valorFinanciado, Div(valorPago, MathPow(Add(One, est), p)))

\* the update of the loop with the correction added instead of subtracted
NewtonUpdate_Soma(est, err, p, p1, valorPago) ==
    Add(est, Div(err, Div(Mul(p, valorPago), MathPow(Add(One, est), p1))))

\* estimativa -= erro / ((p * valorPago) / Math.pow(1 + estimativa, p + 1)),
\* p1 being the value of the expression p + 1
NewtonUpdate(est, err, p, p1, valorPago) ==
    Sub(est, Div(err, Div(Mul(p, valorPago), MathPow(Add(One, est), p1))))

\* the loop condition without Math.abs
NewtonContinua_SemAbs(err) == Gt(err, precisao)

\* the loop condition Math.abs(erro) > precisao
NewtonContinua(err) == Gt(Abs(err), precisao)

\* the test if (iteracoes > 1000) after iteracoes++
NewtonEstourou(it) == it > MaxIteracoes

\* the value returned after the loop: estimativa * 100 in main.js, the literal
\* 3.8956 in the older copy
NewtonRetorno(scr, est) == IF scr = "part_001" THEN Dec(38956, 4) ELSE Mul(est, FromInt(100))

\* the value of a variable that has not been assigned
Indefinido == [k |-> "undef", s |-> 1, m |-> <<0>>, e |-> 0]

(***************************************************************************)
(* The amortization table.                                                 *)
(***************************************************************************)
Linha(mes, prestacao, juros, amortizacao, saldoDevedor) ==
    [mes |-> mes, prestacao |-> prestacao, juros |-> juros,
     amortizacao |-> amortizacao, saldoDevedor |-> saldoDevedor]

\* a table row as the page shows it: every amount through toFixed(2)
LinhaHTML(l) ==
    [tipo |-> "td", mes |-> l.mes, prestacao |-> ToFixed(l.prestacao, 2),
     juros |-> ToFixed(l.juros, 2), amortizacao |-> ToFixed(l.amortizacao, 2),
     saldoDevedor |-> ToFixed(l.saldoDevedor, 2)]

\* the "Total" row; ultima is its last cell
LinhaTotalHTML(pt, jt, at, ultima) ==
    [tipo |-> "th", mes |-> 0, prestacao |-> ToFixed(pt, 2), juros |-> ToFixed(jt, 2),
     amortizacao |-> ToFixed(at, 2), saldoDevedor |-> ultima]

\* the rows of a table as the page shows them, in order
MapLinhasHTML(linhas) == [i \in 1..Len(linhas) |-> LinhaHTML(linhas[i])]

\* the accumulators of the click handler before its loop: pt, jt, at are 0 and
\* the balance is the amount financed
AcumuladoresIniciais(valorFinanciado, p) ==
    [valorFinanciado |-> valorFinanciado, p |-> p, pt |-> Zero(1), jt |-> Zero(1),
     at |-> Zero(1), linhas |-> <<>>]

\* ParcelaSaldo with saldoDevedor = valorFinanciado + amortizacao
ParcelaSaldo_Soma(valorFinanciado, juros, amortizacao) ==
    [juros |-> juros, amortizacao |-> amortizacao,
     saldoDevedor |-> Add(valorFinanciado, amortizacao)]

\* saldoDevedor = valorFinanciado - amortizacao, with the two values before it
ParcelaSaldo(valorFinanciado, juros, amortizacao) ==
    [juros |-> juros, amortizacao |-> amortizacao,
     saldoDevedor |-> Sub(valorFinanciado, amortizacao)]

\* ParcelaAmortizacao with amortizacao = juros - prestacao
ParcelaAmortizacao_Trocada(valorFinanciado, prestacao, juros) ==
    ParcelaSaldo(valorFinanciado, juros, Sub(juros, prestacao))

\* amortizacao = prestacao - juros, and what follows it
ParcelaAmortizacao(valorFinanciado, prestacao, juros) ==
    ParcelaSaldo(valorFinanciado, juros, Sub(prestacao, juros))

\* juros = valorFinanciado * t; amortizacao = prestacao - juros;
\* saldoDevedor = valorFinanciado - amortizacao
Parcela(valorFinanciado, t, prestacao) ==
    ParcelaAmortizacao(valorFinanciado, prestacao, Mul(valorFinanciado, t))

\* valorFinanciado = saldoDevedor; pt += prestacao; jt += juros;
\* at += amortizacao, for the instalment r
Acumular(st, prestacao, r) ==
    [st EXCEPT !.valorFinanciado = r.saldoDevedor,
               !.pt = Add(st.pt, prestacao),
               !.jt = Add(st.jt, r.juros),
               !.at = Add(st.at, r.amortizacao)]

\* EntradaDe without p -= 1
EntradaDe_SemDecremento(st) == st

\* p -= 1 for the instalment taken as the down payment
EntradaDe(st) == [st EXCEPT !.p = Sub(st.p, One)]

\* the branch if (checkbox.checked) before the loop
Entrada(st, t, prestacao) ==
    EntradaDe(Acumular(st, prestacao, Parcela(st.valorFinanciado, t, prestacao)))

\* the row of the instalment r appended to the table
CorpoLinha(i, st, prestacao, r) ==
    [st EXCEPT !.linhas = Append(st.linhas,
                                 Linha(i, prestacao, r.juros, r.amortizacao, r.saldoDevedor))]

\* the accumulators and the row of the instalment r
CorpoParcela(i, st, prestacao, r) == CorpoLinha(i, Acumular(st, prestacao, r), prestacao, r)

\* the body of the click handler's loop for (var i = 1; i <= p; i++)
CorpoTabela(i, st, t, prestacao) ==
    CorpoParcela(i, st, prestacao, Parcela(st.valorFinanciado, t, prestacao))

RECURSIVE LoopTabela(_, _, _, _)
\* for (var i = 1; i <= p; i++) { ... } of the click handler, from i on
LoopTabela(i, st, t, prestacao) ==
    IF Eval(st.p) /\ Le(FromInt(i), st.p)
    THEN LoopTabela(i + 1, CorpoTabela(i, st, t, prestacao), t, prestacao)
    ELSE st

\* the table part of the click handler: the accumulators after the loop
GerarTabela(valorFinanciado, t, p, prestacao, checked) ==
    LET st0 == AcumuladoresIniciais(valorFinanciado, p)
    IN  LoopTabela(1, IF checked THEN Entrada(st0, t, prestacao) ELSE st0, t, prestacao)

\* const NUMERO_DE_REPETICOES = 96
NUMERO_DE_REPETICOES == 96

\* tabela.push({...}) with the balance before the instalment r, then
\* saldoDevedor -= amortizacao
CorpoPush(mes, st, prestacao, r) ==
    [saldoDevedor |-> r.saldoDevedor,
     tabela |-> Append(st.tabela,
                       Linha(mes, prestacao, r.juros, r.amortizacao, st.saldoDevedor))]

\* the body of the loop of calcularTabelaAmortizacao: the row it pushes and
\* the balance it leaves
CorpoAmortizacao(mes, st, valorFinanciado, t, p) ==
    CorpoPush(mes, st, Calcular_PrestacaoMensal(valorFinanciado, t, p),
              Parcela(st.saldoDevedor, t, Calcular_PrestacaoMensal(valorFinanciado, t, p)))

RECURSIVE LoopAmortizacao(_, _, _, _, _)
\* for (let mes = 1; mes <= NUMERO_DE_REPETICOES; mes++) { ... }, from mes on
LoopAmortizacao(mes, st, valorFinanciado, t, p) ==
    IF Eval(st.saldoDevedor) /\ mes <= NUMERO_DE_REPETICOES
    THEN LoopAmortizacao(mes + 1, CorpoAmortizacao(mes, st, valorFinanciado, t, p),
                         valorFinanciado, t, p)
    ELSE st.tabela

calcularTabelaAmortizacao(valorFinanciado, t, p) ==
    LoopAmortizacao(1, [saldoDevedor |-> valorFinanciado, tabela |-> <<>>],
                    valorFinanciado, t, p)

\* one pass of for (const item of tabela) over the totals
SomarLinha(tot, item) ==
    [prestacaoTotal    |-> Add(tot.prestacaoTotal, item.prestacao),
     jurosTotal        |-> Add(tot.jurosTotal, item.juros),
     amortizacaoTotal  |-> Add(tot.amortizacaoTotal, item.amortizacao),
     saldoDevedorTotal |-> Add(tot.saldoDevedorTotal, item.saldoDevedor)]

RECURSIVE SomarTabela(_, _, _)
\* the totals of preencherTabela over the rows from i on
SomarTabela(tabela, i, tot) ==
    IF Eval(tot) /\ i > Len(tabela) THEN tot
    ELSE SomarTabela(tabela, i + 1, SomarLinha(tot, tabela[i]))

TotaisIniciais ==
    [prestacaoTotal |-> Zero(1), jurosTotal |-> Zero(1), amortizacaoTotal |-> Zero(1),
     saldoDevedorTotal |-> Zero(1)]

\* the rows preencherTabela appends for the totals tot, the Total row last
preencherLinhas(tabela, tot) ==
    [totais |-> tot,
     linhas |-> Append(MapLinhasHTML(tabela),
                       LinhaTotalHTML(tot.prestacaoTotal, tot.jurosTotal,
                                      tot.amortizacaoTotal,
                                      ToFixed(tot.saldoDevedorTotal, 2)))]

\* preencherTabela(tabela): its totals after the loop and the rows it appends
\* to the table body, the Total row last
preencherTabela(tabela) == preencherLinhas(tabela, SomarTabela(tabela, 1, TotaisIniciais))

(***************************************************************************)
(* The pages.  script is the script the page loads; parc, itax and ipv are *)
(* the form's text fields (instalments, monthly rate in percent, amount    *)
(* financed), which stay as typed; idp is the state of the down-payment    *)
(* checkbox as the handler last read it.  p, t, valorFinanciado,           *)
(* prestacao, CF, valorPago, treal are the click handler's variables and   *)
(* estimativa, erro, iteracoes those of Calcular_TaxaReal_MetodoNewton     *)
(* while the handler is inside it (pc = "newton").  resultado1 and         *)
(* tabelaBody are the page's result box and table body; tabela and totais  *)
(* record the rows and totals the last run computed, before formatting;    *)
(* threw records that a handler run ended in an uncaught exception.        *)
(***************************************************************************)
VARIABLES script, parc, itax, ipv, idp, pc, p, t, valorFinanciado, prestacao, CF,
          valorPago, estimativa, erro, iteracoes, treal, resultado1, tabela, totais,
          tabelaBody, threw,
          localtime, drawClock_tz, placeIndex, calls, href, destino, timezone, tz,
          tz2, frame, tentativas, excecao, geo, passos, indiceInicial

form == <<script, parc, itax, ipv, idp>>

locais == <<p, t, valorFinanciado, prestacao, CF, valorPago>>

newton == <<estimativa, erro, iteracoes, treal>>

pagina == <<resultado1, tabela, totais, tabelaBody>>

\* the state of the clock page of clock.js
relogio == <<localtime, drawClock_tz, placeIndex, calls, href, destino, timezone, tz,
             tz2, frame, tentativas, excecao, geo, passos, indiceInicial>>

vars == <<form, pc, locais, newton, pagina, threw, relogio>>

\* localStorage.getItem("placeIndex") when nothing is stored
Ausente == [txt |-> "null", n |-> 0]

\* drawClock.tz before any list of zones was read
SemZonas == [k |-> "undefined", cities |-> <<>>]

\* no time zone in the URL, no navigation under way
Nenhum == <<>>

\* no exception has left a frame: e is what the catch caught, thrown what
\* the frame threw
SemExcecao == [e |-> "none", thrown |-> "none"]

\* the browser shows a calculator page: there is no clock
RelogioFora ==
    /\ localtime = <<>> /\ drawClock_tz = SemZonas /\ placeIndex = Ausente
    /\ calls = <<>> /\ href = Nenhum /\ destino = Nenhum /\ timezone = Nenhum
    /\ tz = Nenhum /\ tz2 = Nenhum /\ frame = "fora" /\ tentativas = 0
    /\ excecao = SemExcecao /\ geo = "done" /\ passos = <<>> /\ indiceInicial = 0

\* the largest number of instalments typed into the form
MaxParcelas == 3

\* the table body is not appended to beyond this many rows
MaxTabela == 100

Scripts == {"main", "part_001", "part_000"}

Parcelas == {Vazio} \cup {Texto(n) : n \in 0..MaxParcelas}

Taxas == {Vazio} \cup {Texto(n) : n \in {-100, -75, -25, 0, 2, 25}}

Valores == {Vazio} \cup {Texto(n) : n \in {0, 2, 1000}}

\* the copy with calcularTabelaAmortizacao reads no field: its handler uses
\* the free variables valorFinanciado, t and p, which the page supplies
PGlobais == {FromInt(n) : n \in {1, MaxParcelas, NUMERO_DE_REPETICOES}}

TGlobais == {Zero(1), Dec(2, 2), Dec(25, 2)}

VGlobais == {FromInt(1000)}

\* the fields of a loan of 10000 at 2% a month over 12 months
Exemplo == [parc |-> Texto(12), itax |-> Texto(2), ipv |-> Texto(10000)]

Init ==
    /\ script \in Scripts
    /\ IF script = "part_000"
       THEN /\ parc = Vazio /\ itax = Vazio /\ ipv = Vazio /\ idp = FALSE
            /\ p \in PGlobais /\ t \in TGlobais /\ valorFinanciado \in VGlobais
       ELSE /\ \/ parc \in Parcelas /\ itax \in Taxas /\ ipv \in Valores
               \/ parc = Exemplo.parc /\ itax = Exemplo.itax /\ ipv = Exemplo.ipv
            /\ idp = FALSE
            /\ p = Indefinido /\ t = Indefinido /\ valorFinanciado = Indefinido
    /\ pc = "idle"
    /\ prestacao = Indefinido /\ CF = Indefinido /\ valorPago = Indefinido
    /\ estimativa = Indefinido /\ erro = Indefinido /\ iteracoes = 0 /\ treal = Indefinido
    /\ resultado1 = <<>> /\ tabela = <<>> /\ totais = <<>> /\ tabelaBody = <<>>
    /\ threw = FALSE
    /\ RelogioFora

\* Calcular keeping p and valorFinanciado of an earlier run instead of the
\* values read from the form
Calcular_SemReler(vp, vt, vv) ==
    \E wp \in {IF p = Indefinido THEN vp ELSE p},
       wv \in {IF valorFinanciado = Indefinido THEN vv ELSE valorFinanciado} :
        /\ p' = wp
        /\ t' = vt
        /\ valorFinanciado' = wv
        /\ prestacao' = Calcular_PrestacaoMensal(wv, vt, wp)
        /\ CF' = Calcular_CoeficienteFinanciamento(vt, wp)
        /\ valorPago' = Calcular_ValorPago(wv, vt, wp)
        /\ estimativa' = EstimativaInicial
        /\ iteracoes' = 0
        /\ erro' = NewtonErro(wv, wp, valorPago', EstimativaInicial)
        /\ treal' = Indefinido
        /\ pc' = "newton"
        /\ UNCHANGED <<form, pagina, threw, relogio>>

\* the handler's first statements, up to the entry of the loop of
\* Calcular_TaxaReal_MetodoNewton; vp, vt, vv are the values read from the form
Calcular(vp, vt, vv) ==
    /\ p' = vp
    /\ t' = vt
    /\ valorFinanciado' = vv
    /\ prestacao' = Calcular_PrestacaoMensal(vv, vt, vp)
    /\ CF' = Calcular_CoeficienteFinanciamento(vt, vp)
    /\ valorPago' = Calcular_ValorPago(vv, vt, vp)
    /\ estimativa' = EstimativaInicial
    /\ iteracoes' = 0
    /\ erro' = NewtonErro(vv, vp, valorPago', EstimativaInicial)
    /\ treal' = Indefinido
    /\ pc' = "newton"
    /\ UNCHANGED <<form, pagina, threw, relogio>>

\* main.js: the fields go through parseInt and parseFloat
ClickMain ==
    /\ pc = "idle"
    /\ script = "main"
    /\ Calcular(ParseInt(parc), Div(ParseFloat(itax), FromInt(100)), ParseFloat(ipv))

\* the older copy: the fields are used as the strings they are
ClickPart001 ==
    /\ pc = "idle"
    /\ script = "part_001"
    /\ Calcular(ToNumber(parc), Div(ToNumber(itax), FromInt(100)), ToNumber(ipv))

\* the value of the expression p + 1 inside Calcular_TaxaReal_MetodoNewton: a
\* sum in main.js, where p is a number, and a concatenation in the older copy,
\* where p is the field's string
PMais1 == IF script = "part_001" THEN Concat1(parc) ELSE Add(p, One)

\* one iteration of the loop of Calcular_TaxaReal_MetodoNewton
NewtonPasso ==
    /\ pc = "newton"
    /\ NewtonContinua(erro)
    /\ estimativa' = NewtonUpdate(estimativa, erro, p, PMais1, valorPago)
    /\ erro' = NewtonErro(valorFinanciado, p, valorPago, estimativa')
    /\ iteracoes' = iteracoes + 1
    /\ IF NewtonEstourou(iteracoes + 1)
       THEN treal' = Null /\ pc' = "render"
       ELSE UNCHANGED <<treal, pc>>
    /\ UNCHANGED <<form, locais, pagina, threw, relogio>>

\* the loop of Calcular_TaxaReal_MetodoNewton ends and the function returns
NewtonFim ==
    /\ pc = "newton"
    /\ ~NewtonContinua(erro)
    /\ treal' = NewtonRetorno(script, estimativa)
    /\ pc' = "render"
    /\ UNCHANGED <<form, locais, estimativa, erro, iteracoes, pagina, threw, relogio>>

\* whether building the result box throws: treal.toFixed(4) is evaluated in both
\* branches of main.js and in the checked branch of the older copy
RenderThrows(checked) == ToFixedThrows(treal) /\ (script = "main" \/ checked)

\* the content of the result box
Resultado1(checked) ==
    [prestacao |-> ToFixed(prestacao, 2), CF |-> ToFixed(CF, 6),
     valorPago |-> ToFixed(valorPago, 2),
     treal |-> IF script = "main" \/ checked THEN ToFixed(treal, 4) ELSE treal,
     taxaAnual |-> ToFixed(Mul(TaxaAnual(t), FromInt(100)), 2),
     valorCorrigido |-> ToFixed(Calcular_ValorCorrigido(valorPago, t, p), 2),
     entrada |-> checked]

\* the rest of the handler after Calcular_TaxaReal_MetodoNewton returned: the
\* result box, the table and its Total row; checkbox.checked is read here
Render ==
    /\ pc = "render"
    /\ pc' = "idle"
    /\ \E checked \in BOOLEAN :
        /\ idp' = checked
        /\ IF RenderThrows(checked)
           THEN /\ threw' = TRUE
                /\ UNCHANGED <<pagina, locais>>
           ELSE \E st \in {GerarTabela(valorFinanciado, t, p, prestacao, checked)} :
                    /\ resultado1' = <<Resultado1(checked)>>
                    /\ tabela' = st.linhas
                    /\ totais' = <<[pt |-> st.pt, jt |-> st.jt, at |-> st.at]>>
                    /\ tabelaBody' = Append(MapLinhasHTML(st.linhas),
                                            LinhaTotalHTML(st.pt, st.jt, st.at, Zero(1)))
                    /\ valorFinanciado' = st.valorFinanciado
                    /\ p' = st.p
                    /\ UNCHANGED <<t, prestacao, CF, valorPago, threw>>
    /\ UNCHANGED <<script, parc, itax, ipv, newton, relogio>>

\* the handler of the copy with calcularTabelaAmortizacao and preencherTabela:
\* the rows are appended to whatever the table body holds
ClickPart000 ==
    /\ pc = "idle"
    /\ script = "part_000"
    /\ Len(tabelaBody) <= MaxTabela
    /\ \E tabelaAmortizacao \in {calcularTabelaAmortizacao(valorFinanciado, t, p)} :
       \E res \in {preencherTabela(tabelaAmortizacao)} :
          /\ tabela' = tabelaAmortizacao
          /\ totais' = <<[pt |-> res.totais.prestacaoTotal, jt |-> res.totais.jurosTotal,
                          at |-> res.totais.amortizacaoTotal]>>
          /\ tabelaBody' = tabelaBody \o res.linhas
    /\ UNCHANGED <<form, pc, locais, newton, resultado1, threw, relogio>>

Next == ClickMain \/ ClickPart001 \/ ClickPart000 \/ NewtonPasso \/ NewtonFim \/ Render

Spec == Init /\ [][Next]_vars

(***************************************************************************)
(* The clock page of clock.js.  localtime is the list of cities that       *)
(* localtime.json serves; drawClock_tz is drawClock.tz; placeIndex is the  *)
(* item of that name in localStorage; calls holds the keys of the calls of *)
(* drawClock.location suspended in await readZones(); href is the timeZone *)
(* parameter of the page's URL and destino the URL assigned to             *)
(* window.location.href and not loaded yet; timezone, tz and tz2 are the   *)
(* variables of runAnimation; frame is where the animation stands ("wait"  *)
(* between frames, "try" inside the while (true) of a frame, "stopped"     *)
(* after a frame threw, "fora" when the page is not the clock) and         *)
(* tentativas counts the calls of toLocaleString of the current frame;     *)
(* excecao is what left the last frame; geo is the state of the callbacks  *)
(* of getCurrentPosition.  passos records the calls of drawClock.location  *)
(* that ended since the page was loaded or localStorage cleared, and       *)
(* indiceInicial the stored index at that moment.                          *)
(***************************************************************************)
\* cities of localtime.json: no more than this many
MaxCidades == 3

\* calls of drawClock.location between two loads of the page: no more than
\* this many
MaxChamadas == 3

Cidade(region, city) == [region |-> region, city |-> city]

\* the cities the file may list, in its order
Lista ==
    <<Cidade("America", "Sao_Paulo"), Cidade("America", "Rio_de_Janeiro"),
      Cidade("Europe", "London"), Cidade("Asia", "Tokyo"), Cidade("Europe", "Lisbon")>>

\* `${city.region}/${city.city}`, and what split("/") makes of it again
ZonaDe(c) == <<c.region, c.city>>

\* the time zones toLocaleString accepts: the others raise a RangeError
ZonasValidas ==
    {<<"America", "Sao_Paulo">>, <<"Europe", "London">>, <<"Asia", "Tokyo">>,
     <<"Europe", "Lisbon">>}

Valida(zona) == zona \in ZonasValidas

\* Intl.DateTimeFormat().resolvedOptions().timeZone: a zone the browser knows
ZonasDoBrowser == {<<"America", "Sao_Paulo">>}

\* the timeZone parameter the page may be opened with
ZonasDaURL == {Nenhum, <<"Europe", "London">>, <<"Mars", "Olympus">>}

\* another page, reached with the keys b and B
Fora == <<"cwdc">>

\* what readZones() resolves to
readZones == [k |-> "object", cities |-> localtime]

\* the remainder a % b of two integers, with the sign of a
Resto(a, b) == IF a >= 0 THEN a % b ELSE -((-a) % b)

\* Number.prototype.mod with the remainder alone
Mod_SoResto(a, b) == Resto(a, b)

\* Number.prototype.mod: ((this % b) + b) % b
Mod(a, b) == Resto(Resto(a, b) + b, b)

\* localStorage.getItem("placeIndex") || 0, then the unary +
LerIndice(item) == IF item = Ausente THEN 0 ELSE item.n

\* key === "n" ? 1 : -1
Passo(key) == IF key = "n" THEN 1 ELSE -1

\* the index drawClock.location computes, always from index 0
NovoIndice_DoZero(item, key, length) == Mod(0 + Passo(key), length)

\* the index drawClock.location computes
NovoIndice(item, key, length) == Mod(LerIndice(item) + Passo(key), length)

\* tz = urlParams.get("timeZone") || timezone
TzInicial(param, browser) == IF param = Nenhum THEN browser ELSE param

\* the clock page is open and no handler is running
Aberta == frame \in {"wait", "stopped"}

calculadora == <<form, pc, locais, newton, pagina, threw>>

\* the browser shows the clock: there is no calculator
CalculadoraFora ==
    /\ script = "clock" /\ parc = Vazio /\ itax = Vazio /\ ipv = Vazio /\ idp = FALSE
    /\ p = Indefinido /\ t = Indefinido /\ valorFinanciado = Indefinido
    /\ pc = "idle"
    /\ prestacao = Indefinido /\ CF = Indefinido /\ valorPago = Indefinido
    /\ estimativa = Indefinido /\ erro = Indefinido /\ iteracoes = 0 /\ treal = Indefinido
    /\ resultado1 = <<>> /\ tabela = <<>> /\ totais = <<>> /\ tabelaBody = <<>>
    /\ threw = FALSE

\* the script has run on a page opened with the parameter param: runAnimation
\* has set tz and tz2 and called drawClock, nothing else has happened
Carregada(param) ==
    /\ href' = param
    /\ tz' = TzInicial(param, timezone)
    /\ tz2' = TzInicial(param, timezone)
    /\ drawClock_tz' = SemZonas
    /\ calls' = <<>>
    /\ destino' = Nenhum
    /\ frame' = "wait"
    /\ tentativas' = 0
    /\ excecao' = SemExcecao
    /\ geo' = "pending"
    /\ passos' = <<>>
    /\ indiceInicial' = LerIndice(placeIndex)

InitRelogio ==
    /\ CalculadoraFora
    /\ \E length \in 1..MaxCidades : localtime = SubSeq(Lista, 1, length)
    /\ timezone \in ZonasDoBrowser
    /\ href \in ZonasDaURL
    /\ tz = TzInicial(href, timezone)
    /\ tz2 = TzInicial(href, timezone)
    /\ placeIndex = Ausente
    /\ drawClock_tz = SemZonas
    /\ calls = <<>> /\ destino = Nenhum
    /\ frame = "wait" /\ tentativas = 0 /\ excecao = SemExcecao
    /\ geo = "pending"
    /\ passos = <<>> /\ indiceInicial = 0

\* drawClock.location from let index = ... to the end, with drawClock.tz as
\* zonas; aguardou tells whether the call had been suspended.  Where
\* cities[index] is undefined, city.region raises a TypeError and the URL is
\* not assigned
Localizar(key, zonas, aguardou) ==
    \E index \in {NovoIndice(placeIndex, key, Len(zonas.cities))} :
        /\ placeIndex' = Texto(index)
        /\ IF index \in 0..(Len(zonas.cities) - 1)
           THEN destino' = ZonaDe(zonas.cities[index + 1])
           ELSE UNCHANGED destino
        /\ passos' = Append(passos, [d |-> Passo(key), aguardou |-> aguardou])

\* window.onkeydown with "n" or "N": drawClock.location(key) up to its end, or
\* up to await readZones() when drawClock.tz is undefined
TeclaN(key) ==
    /\ Aberta
    /\ Len(calls) + Len(passos) < MaxChamadas
    /\ IF drawClock_tz = SemZonas
       THEN /\ calls' = Append(calls, key)
            /\ UNCHANGED <<placeIndex, destino, passos>>
       ELSE /\ Localizar(key, drawClock_tz, FALSE)
            /\ UNCHANGED calls
    /\ UNCHANGED <<localtime, drawClock_tz, href, timezone, tz, tz2, frame, tentativas,
                   excecao, geo, indiceInicial, calculadora>>

Remover(s, i) == SubSeq(s, 1, i - 1) \o SubSeq(s, i + 1, Len(s))

\* readZones() of a suspended call resolves: drawClock.tz is assigned and the
\* call runs to its end
LocationRetoma(i) ==
    /\ Aberta
    /\ i \in 1..Len(calls)
    /\ drawClock_tz' = readZones
    /\ Localizar(calls[i], readZones, TRUE)
    /\ calls' = Remover(calls, i)
    /\ UNCHANGED <<localtime, href, timezone, tz, tz2, frame, tentativas, excecao, geo,
                   indiceInicial, calculadora>>

\* readZones() of a suspended call rejects: the call ends there
LocationFalha(i) ==
    /\ Aberta
    /\ i \in 1..Len(calls)
    /\ calls' = Remover(calls, i)
    /\ UNCHANGED <<localtime, drawClock_tz, placeIndex, href, destino, timezone, tz, tz2,
                   frame, tentativas, excecao, geo, passos, indiceInicial, calculadora>>

\* window.onkeydown with Escape or e and the meta or control key
LimparStorage ==
    /\ Aberta
    /\ placeIndex # Ausente
    /\ placeIndex' = Ausente
    /\ passos' = <<>>
    /\ indiceInicial' = 0
    /\ UNCHANGED <<localtime, drawClock_tz, calls, href, destino, timezone, tz, tz2, frame,
                   tentativas, excecao, geo, calculadora>>

\* window.onkeydown with b or B
TeclaB ==
    /\ Aberta
    /\ destino' = Fora
    /\ UNCHANGED <<localtime, drawClock_tz, placeIndex, calls, href, timezone, tz, tz2,
                   frame, tentativas, excecao, geo, passos, indiceInicial, calculadora>>

\* the browser loads the URL assigned to window.location.href: the page and
\* its suspended calls are gone, localStorage stays
Navegar ==
    /\ Aberta
    /\ destino # Nenhum
    /\ IF destino = Fora
       THEN /\ frame' = "fora"
            /\ calls' = <<>>
            /\ destino' = Nenhum
            /\ UNCHANGED <<href, tz, tz2, drawClock_tz, tentativas, excecao, geo, passos,
                           indiceInicial>>
       ELSE Carregada(destino)
    /\ UNCHANGED <<localtime, placeIndex, timezone, calculadora>>

\* getCurrentPosition calls its first callback: the position is shown
GeoPosicao ==
    /\ Aberta
    /\ geo = "pending"
    /\ geo' = "done"
    /\ UNCHANGED <<localtime, drawClock_tz, placeIndex, calls, href, destino, timezone, tz,
                   tz2, frame, tentativas, excecao, passos, indiceInicial, calculadora>>

\* getCurrentPosition calls its second callback, up to await findCity(...)
GeoErro ==
    /\ Aberta
    /\ geo = "pending"
    /\ geo' = "findCity"
    /\ UNCHANGED <<localtime, drawClock_tz, placeIndex, calls, href, destino, timezone, tz,
                   tz2, frame, tentativas, excecao, passos, indiceInicial, calculadora>>

\* findCity resolves: [drawClock.tz, city] = ...
GeoRetoma ==
    /\ Aberta
    /\ geo = "findCity"
    /\ geo' = "done"
    /\ drawClock_tz' = readZones
    /\ UNCHANGED <<localtime, placeIndex, calls, href, destino, timezone, tz, tz2, frame,
                   tentativas, excecao, passos, indiceInicial, calculadora>>

\* findCity rejects
GeoFalha ==
    /\ Aberta
    /\ geo = "findCity"
    /\ geo' = "done"
    /\ UNCHANGED <<localtime, drawClock_tz, placeIndex, calls, href, destino, timezone, tz,
                   tz2, frame, tentativas, excecao, passos, indiceInicial, calculadora>>

\* the browser calls the callback of runAnimation for a frame
Frame ==
    /\ frame = "wait"
    /\ frame' = "try"
    /\ tentativas' = 0
    /\ UNCHANGED <<localtime, drawClock_tz, placeIndex, calls, href, destino, timezone, tz,
                   tz2, excecao, geo, passos, indiceInicial, calculadora>>

\* the catch of a RangeError with tz = tz2, the zone of the URL
Recuo_Tz2(browser, original) == original

\* the catch of a RangeError: tz = timezone
Recuo(browser, original) == browser

\* toLocaleString accepts tz: break, the handles are drawn and the next frame
\* is requested
FormataOk ==
    /\ frame = "try"
    /\ Valida(tz)
    /\ tentativas' = tentativas + 1
    /\ frame' = "wait"
    /\ UNCHANGED <<localtime, drawClock_tz, placeIndex, calls, href, destino, timezone, tz,
                   tz2, excecao, geo, passos, indiceInicial, calculadora>>

\* toLocaleString raises a RangeError for tz
FormataRangeError ==
    /\ frame = "try"
    /\ ~Valida(tz)
    /\ tentativas' = tentativas + 1
    /\ tz' = Recuo(timezone, tz2)
    /\ UNCHANGED <<localtime, drawClock_tz, placeIndex, calls, href, destino, timezone,
                   tz2, frame, excecao, geo, passos, indiceInicial, calculadora>>

\* what the try block may raise besides a RangeError
OutrasExcecoes == {"TypeError"}

\* new Error("By, bye. See you later, alligator.")
NovoErro == "Error: By, bye. See you later, alligator."

\* the try block raises something else: console.log(e); throw new Error(...)
FormataOutroErro ==
    /\ frame = "try"
    /\ tentativas' = tentativas + 1
    /\ frame' = "stopped"
    /\ \E e \in OutrasExcecoes : excecao' = [e |-> e, thrown |-> NovoErro]
    /\ UNCHANGED <<localtime, drawClock_tz, placeIndex, calls, href, destino, timezone, tz,
                   tz2, geo, passos, indiceInicial, calculadora>>

NextRelogio ==
    \/ \E key \in {"n", "N"} : TeclaN(key)
    \/ \E i \in 1..MaxChamadas : LocationRetoma(i)
    \/ \E i \in 1..MaxChamadas : LocationFalha(i)
    \/ LimparStorage
    \/ TeclaB
    \/ Navegar
    \/ GeoPosicao
    \/ GeoErro
    \/ GeoRetoma
    \/ GeoFalha
    \/ Frame
    \/ FormataOk
    \/ FormataRangeError
    \/ FormataOutroErro

SpecRelogio == InitRelogio /\ [][NextRelogio]_vars
(***************************************************************************)
(* Properties.  While pc is "newton" or "render" the variables p, t,       *)
(* valorFinanciado, prestacao, CF and valorPago hold the arguments and the *)
(* results of the handler's calls; at pc = "render" estimativa, erro,      *)
(* iteracoes and treal hold the last values of the variables of            *)
(* Calcular_TaxaReal_MetodoNewton and what it returned.                    *)
(***************************************************************************)
Chamada == pc \in {"newton", "render"}

\* a finite number above zero
Positivo(x) == x.k = "fin" /\ x.s = 1

\* an integer n >= 1
InteiroPositivo(x) == Positivo(x) /\ IsSmallInt(x)

\* |x - y| <= tol * |y|
Aprox(x, y, tol) == Le(Abs(Sub(x, y)), Mul(tol, Abs(y)))

\* the relative tolerance of a comparison of two roundings of one real number
Eps == Dec(1, 12)

\* C1: for every principal > 0, rate > 0 and integer periods >= 1 the value
\* returned by Calcular_PrestacaoMensal is principal * rate / (1 - (1+rate)^(-periods)):
\* multiplied out, prestacao * ((1+t)^p - 1) = valorFinanciado * t * (1+t)^p, and
\* the value is a finite number above zero
C1_PrestacaoAnuidade ==
    (Chamada /\ Positivo(valorFinanciado) /\ Positivo(t) /\ InteiroPositivo(p))
        => /\ Positivo(prestacao)
           /\ Aprox(Mul(prestacao, Sub(PowNat(Add(One, t), IntOf(p)), One)),
                    Mul(Mul(valorFinanciado, t), PowNat(Add(One, t), IntOf(p))), Eps)

\* C1 happens: the handler has called Calcular_PrestacaoMensal with a principal
\* above zero, a rate above zero and at least two periods
C1_Witness ==
    /\ Chamada /\ Positivo(valorFinanciado) /\ Positivo(t) /\ InteiroPositivo(p)
    /\ IntOf(p) >= 2
    /\ Positivo(prestacao)

\* C2: for rate = 0, principal > 0 and periods >= 1, Calcular_PrestacaoMensal
\* returns exactly principal / periods and Calcular_ValorPago exactly principal
C2_TaxaZero ==
    (Chamada /\ t.k = "zero" /\ Positivo(valorFinanciado) /\ InteiroPositivo(p))
        => /\ prestacao = Div(valorFinanciado, p)
           /\ valorPago = valorFinanciado

\* an input outside the domain: principal <= 0, periods <= 0, rate <= -1, or a
\* value that is not a number (an empty field read by parseInt or parseFloat)
EntradaInvalida ==
    \/ ~Positivo(valorFinanciado)
    \/ ~InteiroPositivo(p)
    \/ ~Gt(t, FromInt(-1))

\* C3: a call with an input outside the domain returns no numeric value, and no
\* call returns NaN or an infinite value
C3_InvalidInput ==
    Chamada => \A x \in {prestacao, CF, valorPago} :
                   /\ EntradaInvalida => ~IsNumber(x)
                   /\ x.k \notin {"nan", "inf"}

\* C4: Calcular_TaxaReal_MetodoNewton never updates its estimate a 1001st time
C4_LimiteIteracoes == iteracoes <= MaxIteracoes

\* C5: when Calcular_TaxaReal_MetodoNewton returns a number, the estimate it
\* stopped at meets the convergence test |erro| <= 1e-6
C5_TesteConvergencia ==
    (pc = "render" /\ treal.k # "null") => Le(Abs(erro), precisao)

\* C6: the number Calcular_TaxaReal_MetodoNewton returns is the estimate it
\* stopped at, a fraction per period
C6_RetornaFracao ==
    (pc = "render" /\ treal.k # "null") => treal = estimativa

\* a rate in (0, 0.5)
TaxaRoundTrip(x) == Positivo(x) /\ Gt(Dec(5, 1), x)

\* main.js has called Calcular_TaxaReal_MetodoNewton on the total paid of a
\* principal above zero at a rate in (0, 0.5) over p >= 1 periods, and it returned
RoundTrip ==
    /\ pc = "render" /\ script = "main"
    /\ Positivo(valorFinanciado) /\ TaxaRoundTrip(t) /\ InteiroPositivo(p)

\* Calcular_TaxaReal_MetodoNewton returned a number after its loop ended on an
\* estimate that meets the convergence test
Convergiu == treal.k = "fin" /\ Le(Abs(erro), precisao)

PagoMenor ==
    /\ pc = "render" /\ script = "main"
    /\ Positivo(valorPago) /\ Gt(valorFinanciado, valorPago) /\ InteiroPositivo(p)

C9_SemExcecao == threw = FALSE

\* a handler run has filled the table
TabelaGerada ==
    /\ pc = "idle"
    /\ IF script = "part_000" THEN tabelaBody # <<>> ELSE resultado1 # <<>>

\* C10: without down payment and for periods >= 1 the table has exactly
\* periods rows, numbered 1, 2, ..., periods in this order
C10_LinhasPorPeriodo ==
    (TabelaGerada /\ ~idp /\ InteiroPositivo(p))
        => /\ Len(tabela) = IntOf(p)
           /\ \A i \in 1..Len(tabela) : tabela[i].mes = i

\* the amount financed, the number of instalments and the instalment the last
\* handler run started from; the click handler overwrites its valorFinanciado
\* and p while it fills the table, the form fields keep what was typed
PrincipalOriginal ==
    IF script = "main" THEN ParseFloat(ipv)
    ELSE IF script = "part_001" THEN ToNumber(ipv) ELSE valorFinanciado

PeriodosOriginal ==
    IF script = "main" THEN ParseInt(parc)
    ELSE IF script = "part_001" THEN ToNumber(parc) ELSE p

PrestacaoOriginal == Calcular_PrestacaoMensal(PrincipalOriginal, t, PeriodosOriginal)

\* the last handler run filled the table and tabela holds its rows
Gerada == TabelaGerada /\ ~threw

\* the balance before the first row: the amount financed, less the principal
\* portion of the down payment when there is one
SaldoInicial ==
    IF idp THEN Sub(PrincipalOriginal,
                    Sub(PrestacaoOriginal, Mul(PrincipalOriginal, t)))
    ELSE PrincipalOriginal

RECURSIVE SaldosGo(_, _, _)
SaldosGo(k, saldo, acc) ==
    IF Eval(saldo) /\ Eval(acc) /\ k > Len(tabela) THEN acc
    ELSE SaldosGo(k + 1, Sub(saldo, tabela[k].amortizacao), Append(acc, saldo))

\* the balance before each row: the balance before the first row less the
\* principal portions of the rows before it
SaldosAntes == SaldosGo(1, SaldoInicial, <<>>)

\* C11: in every row the payment is the interest plus the principal portion up
\* to rounding (relative to the larger of payment and interest), the interest
\* is the balance before the row times the rate, and the payment is the
\* instalment computed from the original inputs
C11_LinhaCoerente ==
    Gerada =>
        \A saldos \in {SaldosAntes}, original \in {PrestacaoOriginal} :
        \A k \in 1..Len(tabela) :
            /\ tabela[k].prestacao = original
            /\ tabela[k].juros = Mul(saldos[k], t)
            /\ IsFinite(tabela[k].prestacao)
                   => Le(Abs(Sub(Add(tabela[k].juros, tabela[k].amortizacao),
                                 tabela[k].prestacao)),
                         Mul(Eps, Add(Abs(tabela[k].prestacao), Abs(tabela[k].juros))))

\* C11 happens: a table of at least two rows for a positive amount and rate
C11_Witness ==
    /\ Gerada /\ Len(tabela) >= 2
    /\ Positivo(PrincipalOriginal) /\ Positivo(t) /\ Positivo(tabela[2].prestacao)

\* C12: the balance stored in row k is the balance before the row less the
\* row's principal portion
C12_SaldoAposAmortizacao ==
    Gerada =>
        \A saldos \in {SaldosAntes} :
        \A k \in 1..Len(tabela) :
            tabela[k].saldoDevedor = Sub(saldos[k], tabela[k].amortizacao)

\* the last run started from a positive amount, a positive rate and a whole
\* number of instalments >= 1
EntradaValida ==
    Positivo(PrincipalOriginal) /\ Positivo(t) /\ InteiroPositivo(PeriodosOriginal)

\* C13: for a positive amount and rate the stored balance strictly decreases
\* from row to row, starting below the amount financed, and stays above -0.01
C13_SaldoDecrescente ==
    (Gerada /\ EntradaValida) =>
        \A k \in 1..Len(tabela) :
            /\ Gt(IF k = 1 THEN PrincipalOriginal ELSE tabela[k - 1].saldoDevedor,
                  tabela[k].saldoDevedor)
            /\ Gt(tabela[k].saldoDevedor, Dec(-1, 2))

\* C14: for a positive amount, a rate in (0, 1) and periods >= 1 the balance
\* of the last row is within 0.01 of zero
C14_SaldoFinalZero ==
    (Gerada /\ EntradaValida /\ Gt(One, t) /\ Len(tabela) >= 1)
        => Le(Abs(tabela[Len(tabela)].saldoDevedor), Dec(1, 2))

RECURSIVE SomaGo(_, _)
SomaGo(k, acc) ==
    IF Eval(acc) /\ k > Len(tabela) THEN acc
    ELSE SomaGo(k + 1, [pt |-> Add(acc.pt, tabela[k].prestacao),
                        jt |-> Add(acc.jt, tabela[k].juros),
                        at |-> Add(acc.at, tabela[k].amortizacao)])

\* the sums of the payments, the interests and the principal portions of the
\* rows of the table, added in the order of the rows
SomaDasLinhas == SomaGo(1, [pt |-> Zero(1), jt |-> Zero(1), at |-> Zero(1)])

\* C15: the totals are the sums of payment, interest and principal portion
\* over exactly the rows of the table, with or without down payment
C15_TotaisDasLinhas == Gerada => totais = <<SomaDasLinhas>>

\* C16: with the down-payment flag set and n >= 1 instalments, one instalment
\* computed for n periods is applied to the full amount before the loop and
\* the loop runs n - 1 times; with the flag clear the first row starts from
\* the full amount
C16_Entrada ==
    (Gerada /\ InteiroPositivo(PeriodosOriginal)) =>
        IF idp
        THEN /\ p = Sub(PeriodosOriginal, One)
             /\ Len(tabela) = IntOf(PeriodosOriginal) - 1
             /\ Len(tabela) = 0 => valorFinanciado = SaldoInicial
             /\ Len(tabela) >= 1 => tabela[1].juros = Mul(SaldoInicial, t)
             /\ \A k \in 1..Len(tabela) : tabela[k].prestacao = PrestacaoOriginal
        ELSE /\ script # "part_000" => Len(tabela) = IntOf(PeriodosOriginal)
             /\ tabela[1].juros = Mul(PrincipalOriginal, t)

\* C16 happens: a table with down payment for at least two instalments on a
\* positive amount
C16_Witness ==
    /\ Gerada /\ idp /\ Positivo(PrincipalOriginal) /\ Positivo(t)
    /\ InteiroPositivo(PeriodosOriginal) /\ Len(tabela) >= 1

\* the rows and totals the schedule code yields for the inputs the page holds
\* and the state of the checkbox, computed afresh
TabelaDe(checked) ==
    IF script = "part_000"
    THEN calcularTabelaAmortizacao(valorFinanciado, t, p)
    ELSE GerarTabela(PrincipalOriginal, t, PeriodosOriginal, PrestacaoOriginal, checked).linhas

TotaisDe(checked) ==
    IF script = "part_000"
    THEN \A tot \in {preencherTabela(calcularTabelaAmortizacao(valorFinanciado, t, p)).totais} :
            totais = <<[pt |-> tot.prestacaoTotal, jt |-> tot.jurosTotal,
                        at |-> tot.amortizacaoTotal]>>
    ELSE \A st \in {GerarTabela(PrincipalOriginal, t, PeriodosOriginal, PrestacaoOriginal, checked)} :
            totais = <<[pt |-> st.pt, jt |-> st.jt, at |-> st.at]>>

\* a run of a handler that builds a table ends in this step
TerminaGeracao == (pc = "render" /\ pc' = "idle" /\ ~threw') \/ (script = "part_000" /\ tabela' # <<>> /\ pc = "idle" /\ tabelaBody' # tabelaBody)

\* C17: the rows and totals of a run are those the schedule code yields for
\* the inputs alone, whatever ran before, and a run that follows a run with
\* the same inputs and the same state of the checkbox leaves the same rows
\* and the same totals
C17_Deterministico ==
    /\ [](Gerada => (tabela = TabelaDe(idp) /\ TotaisDe(idp)))
    /\ [][(TerminaGeracao /\ Gerada' /\ totais # <<>> /\ idp' = idp)
              => (tabela' = tabela /\ totais' = totais)]_vars

\* C17 happens: the handler of the page with the 96-row table has run twice on
\* the same globals
C17_Witness ==
    /\ Gerada /\ script = "part_000"
    /\ Len(tabelaBody) = 2 * (NUMERO_DE_REPETICOES + 1)
    /\ Positivo(valorFinanciado) /\ Positivo(t)

\* the form holds the loan of 10000 at 2% a month over 12 months and the
\* handler has computed its amounts
CalculouExemplo ==
    /\ script # "part_000" /\ pc \in {"newton", "render"}
    /\ parc = Exemplo.parc /\ itax = Exemplo.itax /\ ipv = Exemplo.ipv

\* the table of that loan without down payment is on the page
GerouExemplo ==
    /\ script # "part_000" /\ Gerada /\ ~idp
    /\ parc = Exemplo.parc /\ itax = Exemplo.itax /\ ipv = Exemplo.ipv

\* x is within 0.01 of the amount of so many cents
Centavos(x, cents) == Le(Abs(Sub(x, Dec(cents, 2))), Dec(1, 2))

\* the first row of the table of the loan of 10000 at 2% over 12 months:
\* interest 200.00, amortization 745.60, balance 9254.40
PrimeiraLinhaExemplo ==
    GerouExemplo => /\ Centavos(tabela[1].prestacao, 94560)
                    /\ Centavos(tabela[1].juros, 20000)
                    /\ Centavos(tabela[1].amortizacao, 74560)
                    /\ Centavos(tabela[1].saldoDevedor, 925440)

\* C18, as stated: for 10000 at 2% over 12 months the instalment is 945.60, the
\* total paid 11347.22 and the first row 200.00, 745.60, 9254.40, each within 0.01
C18_Exemplo ==
    /\ CalculouExemplo => Centavos(prestacao, 94560) /\ Centavos(valorPago, 1134722)
    /\ PrimeiraLinhaExemplo

\* C18, amended: for 10000 at 2% over 12 months the instalment is 945.60, the
\* total paid 11347.15, twelve times the instalment, and the first row 200.00,
\* 745.60, 9254.40, each within 0.01
C18_ExemploTotal ==
    /\ CalculouExemplo => /\ Centavos(prestacao, 94560)
                          /\ Centavos(valorPago, 1134715)
                          /\ valorPago = Mul(prestacao, FromInt(12))
    /\ PrimeiraLinhaExemplo

\* C18 happens: the table of the example is on the page, twelve rows long
C18_Witness == GerouExemplo /\ Len(tabela) = 12 /\ Centavos(valorPago, 1134715)

\* C19: for every rate > 0 and integer periods >= 1 the value returned by
\* Calcular_CoeficienteFinanciamento is rate * (1+rate)^periods /
\* ((1+rate)^periods - 1), and for a principal > 0 it is the instalment
\* divided by the principal, up to rounding
C19_Coeficiente ==
    (Chamada /\ Positivo(t) /\ InteiroPositivo(p)) =>
        \A pot \in {PowNat(Add(One, t), IntOf(p))} :
            /\ CF = Div(Mul(t, pot), Sub(pot, One))
            /\ Positivo(CF)
            /\ Positivo(valorFinanciado) => Aprox(CF, Div(prestacao, valorFinanciado), Eps)

\* C19 happens: the handler has computed the coefficient for a principal above
\* zero, a rate above zero and at least two periods
C19_Witness ==
    /\ Chamada /\ Positivo(valorFinanciado) /\ Positivo(t) /\ InteiroPositivo(p)
    /\ IntOf(p) >= 2 /\ Positivo(CF)

\* C20: for every principal > 0, 0 < rate < 1 and integer periods >= 1 the
\* value returned by Calcular_ValorPago is the instalment times the periods and
\* is not below the principal
C20_ValorPago ==
    (Chamada /\ Positivo(valorFinanciado) /\ Positivo(t) /\ Gt(One, t) /\ InteiroPositivo(p))
        => /\ valorPago = Mul(prestacao, p)
           /\ Le(valorFinanciado, valorPago)

\* C20 happens: the handler has computed the total paid over at least two
\* periods at a rate between 0 and 1, and it exceeds the principal
C20_Witness ==
    /\ Chamada /\ Positivo(valorFinanciado) /\ Positivo(t) /\ Gt(One, t)
    /\ InteiroPositivo(p) /\ IntOf(p) >= 2
    /\ Gt(valorPago, valorFinanciado)

\* the stored index is absent or the text of an integer from 0 to L - 1
IndiceValido ==
    \/ placeIndex = Ausente
    \/ placeIndex.txt = "int" /\ placeIndex.n \in 0..(Len(localtime) - 1)

\* a call of drawClock.location ends in this step
TerminouLocation == Len(passos') = Len(passos) + 1

\* C21: with a list of L >= 1 cities the stored placeIndex is always absent or
\* an integer in 0..L-1; a call of drawClock.location for "n" stores (i+1) mod L
\* and one for "N" stores (i-1) mod L, where i is the stored index or 0 when
\* none is stored, and assigns the URL of the city at the new index
C21_Ciclo ==
    /\ [](Len(localtime) >= 1 => IndiceValido)
    /\ [][TerminouLocation =>
              \A d \in {passos'[Len(passos')].d}, i \in {LerIndice(placeIndex)} :
                  /\ placeIndex' = Texto((i + d) % Len(localtime))
                  /\ destino' = ZonaDe(localtime[((i + d) % Len(localtime)) + 1])]_vars

\* C21 happens: from no stored index, "N" has wrapped round to the last of at
\* least two cities
C21_Witness ==
    /\ frame # "fora" /\ Len(localtime) >= 2
    /\ indiceInicial = 0 /\ Len(passos) = 1 /\ passos[1].d = -1
    /\ placeIndex = Texto(Len(localtime) - 1)
    /\ destino = ZonaDe(localtime[Len(localtime)])

\* one call of toLocaleString happens in this step
Tentativa == frame = "try" /\ tentativas' = tentativas + 1

\* the attempts of a frame: no frame calls toLocaleString more than twice; the
\* loop goes round again only after a RangeError, with tz replaced by the
\* browser's zone, which is accepted; an attempt after a fallback uses the
\* browser's zone and ends the loop
DuasTentativas ==
    /\ [](tentativas <= 2)
    /\ [][Tentativa =>
              /\ frame' = "try" => (~Valida(tz) /\ tz' = timezone /\ Valida(tz'))
              /\ tz # tz2 => (tz = timezone /\ frame' # "try")]_vars

\* C22, as stated: the retry loop of a frame ends after at most two attempts,
\* the second with the browser's zone, and any exception other than a
\* RangeError ends it by being thrown again
C22_LoopTermina ==
    /\ DuasTentativas
    /\ [][(Tentativa /\ frame' = "stopped") => excecao'.thrown = excecao'.e]_vars

\* C22, amended: the retry loop of a frame ends after at most two attempts,
\* the second with the browser's zone, and any exception other than a
\* RangeError ends it: the exception is logged and a new Error is thrown in
\* its place
C22_LoopTerminaNovoErro ==
    /\ DuasTentativas
    /\ [][(Tentativa /\ frame' = "stopped") =>
              /\ excecao'.e \notin {"none", "RangeError"}
              /\ excecao'.thrown = NovoErro]_vars

\* C22 happens: after a fallback, a later frame has ended on its first attempt
C22_Witness ==
    /\ frame = "wait" /\ tentativas = 1
    /\ tz # tz2 /\ tz = timezone /\ ~Valida(tz2)

RECURSIVE SomaPassos(_, _)
\* the sum of the steps of the calls from the k-th on
SomaPassos(s, k) == IF k > Len(s) THEN 0 ELSE s[k].d + SomaPassos(s, k + 1)

\* C23: after the calls of drawClock.location that ended since the page was
\* loaded, suspended in readZones or not, the stored index is the index at
\* the load plus the sum of their steps, modulo the number of cities
C23_SemPerda ==
    Len(localtime) >= 1 =>
        LerIndice(placeIndex) = (indiceInicial + SomaPassos(passos, 1)) % Len(localtime)

\* C23 happens: two calls that were both suspended in readZones have ended,
\* and their steps do not cancel
C23_Witness ==
    /\ frame # "fora" /\ Len(localtime) >= 3
    /\ Len(passos) >= 2 /\ passos[1].aguardou /\ passos[2].aguardou
    /\ passos[1].d = passos[2].d

=============================================================================
